---- MODULE Spec2Model ----
(***************************************************************************)
(* Model of the Mainz cafe directory view (src/mainz-cafes/src/app/page.tsx) *)
(*                                                                         *)
(* Strings are sequences of one-character strings, so that trimming, case  *)
(* folding, substring search, splitting, collation and CSV quoting are     *)
(* computed character by character as the code computes them.              *)
(***************************************************************************)
EXTENDS Naturals, Integers, Sequences, FiniteSets, Bags, TLC

VARIABLES
  cafesData,      \* the imported data file (page.tsx:5), fixed after load
  searchTerm,     \* useState("") (page.tsx:71)
  providerFilter, \* useState("all") (page.tsx:72)
  copiedEmail,    \* useState(null) (page.tsx:73)
  pendingWrites,  \* clipboard writes awaited by handleCopy (page.tsx:124), a bag of emails
  timers,         \* pending setTimeout callbacks (page.tsx:126): remaining ms, oldest first
  consoleErrors,  \* number of console.error calls (page.tsx:128)
  downloaded,     \* text of the last file handed to the browser (page.tsx:144-150)
  csvValue,       \* argument of the last sanitiseCsvField call under CsvSpec
  csvQuoted       \* its result, Null before the call

vars == <<cafesData, searchTerm, providerFilter, copiedEmail, pendingWrites,
          timers, consoleErrors, downloaded, csvValue, csvQuoted>>

-----------------------------------------------------------------------------
(* Bounds of the model *)

MaxInFlight == 2
MaxErrors == 1
MaxFieldLen == 3

-----------------------------------------------------------------------------
(* JavaScript values and string primitives *)

\* null and undefined, as one-element sequences no string can equal
Null == <<"NULL">>
Undefined == <<"UNDEFINED">>

Str0 == <<>>

Lowers == <<"a","b","c","d","e","f","g","h","i","j","k","l","m",
            "n","o","p","q","r","s","t","u","v","w","x","y","z">>
Uppers == <<"A","B","C","D","E","F","G","H","I","J","K","L","M",
            "N","O","P","Q","R","S","T","U","V","W","X","Y","Z">>

IndexIn(seq, c) ==
  IF \E i \in 1..Len(seq) : seq[i] = c
  THEN CHOOSE i \in 1..Len(seq) : seq[i] = c
  ELSE 0

Punctuation == <<" ", "\t", "\n", "-", ",", ".", "\"", "@", "/", ":", "(", ")">>
Digits == <<"0","1","2","3","4","5","6","7","8","9">>

\* every character the model's strings are made of
Chars == {(Punctuation \o Digits \o Lowers \o Uppers)[i] :
            i \in 1..(Len(Punctuation) + Len(Digits) + Len(Lowers) + Len(Uppers))}

LowerOf == [c \in Chars |-> IF IndexIn(Uppers, c) > 0
                            THEN Lowers[IndexIn(Uppers, c)]
                            ELSE c]

\* String.prototype.toLowerCase
ToLowerCase(s) == [i \in 1..Len(s) |-> LowerOf[s[i]]]

IsWhiteSpace(c) == c \in {" ", "\t", "\n"}

\* String.prototype.trim
Trim(s) ==
  LET keep == {i \in 1..Len(s) : ~IsWhiteSpace(s[i])}
  IN IF keep = {} THEN Str0
     ELSE LET lo == CHOOSE i \in keep : \A j \in keep : i <= j
              hi == CHOOSE i \in keep : \A j \in keep : j <= i
          IN SubSeq(s, lo, hi)

\* String.prototype.includes
Includes(s, t) ==
  \E i \in 0..(Len(s) - Len(t)) : SubSeq(s, i + 1, i + Len(t)) = t

\* String.prototype.split(sep) for a one-character separator
RECURSIVE SplitFrom(_, _, _, _)
SplitFrom(s, sep, i, cur) ==
  IF i > Len(s) THEN <<cur>>
  ELSE IF s[i] = sep THEN <<cur>> \o SplitFrom(s, sep, i + 1, Str0)
  ELSE SplitFrom(s, sep, i + 1, Append(cur, s[i]))

Split(s, sep) == SplitFrom(s, sep, 1, Str0)

\* Array.prototype.join
RECURSIVE Join(_, _)
Join(parts, sep) ==
  IF parts = <<>> THEN Str0
  ELSE IF Len(parts) = 1 THEN parts[1]
  ELSE parts[1] \o sep \o Join(Tail(parts), sep)

\* String(n) for a non-negative integer
RECURSIVE NumberToString(_)
NumberToString(n) ==
  IF n < 10 THEN <<Digits[n + 1]>>
  ELSE NumberToString(n \div 10) \o <<Digits[(n % 10) + 1]>>

\* a ?? b
Coalesce(v, d) == IF v = Null \/ v = Undefined THEN d ELSE v

-----------------------------------------------------------------------------
(* String.prototype.localeCompare (page.tsx:91): multi-level collation.     *)
(* Primary weights order white space before punctuation before digits      *)
(* before letters and ignore case; on a primary tie lower case sorts       *)
(* before upper case.                                                      *)

CollationOrder == Punctuation \o Digits \o Lowers

PrimaryWeight == [c \in Chars |-> IndexIn(CollationOrder, LowerOf[c])]
TertiaryWeight == [c \in Chars |-> IF IndexIn(Uppers, c) > 0 THEN 1 ELSE 0]

RECURSIVE CompareWeights(_, _)
CompareWeights(a, b) ==
  IF a = <<>> /\ b = <<>> THEN 0
  ELSE IF a = <<>> THEN -1
  ELSE IF b = <<>> THEN 1
  ELSE IF Head(a) < Head(b) THEN -1
  ELSE IF Head(a) > Head(b) THEN 1
  ELSE CompareWeights(Tail(a), Tail(b))

LocaleCompare(a, b) ==
  LET p == CompareWeights([i \in 1..Len(a) |-> PrimaryWeight[a[i]]],
                          [i \in 1..Len(b) |-> PrimaryWeight[b[i]]])
  IN IF p # 0 THEN p
     ELSE CompareWeights([i \in 1..Len(a) |-> TertiaryWeight[a[i]]],
                         [i \in 1..Len(b) |-> TertiaryWeight[b[i]]])

-----------------------------------------------------------------------------
(* Module-level constants of page.tsx *)

PUBLIC_PROVIDERS == {
  <<"g","m","a","i","l",".","c","o","m">>,
  <<"g","o","o","g","l","e","m","a","i","l",".","c","o","m">>,
  <<"g","m","x",".","d","e">>,
  <<"g","m","x",".","n","e","t">>,
  <<"w","e","b",".","d","e">>,
  <<"t","-","o","n","l","i","n","e",".","d","e">>,
  <<"h","o","t","m","a","i","l",".","c","o","m">>,
  <<"o","u","t","l","o","o","k",".","c","o","m">>,
  <<"y","a","h","o","o",".","c","o","m">>,
  <<"y","a","h","o","o",".","d","e">>,
  <<"i","c","l","o","u","d",".","c","o","m">>,
  <<"m","e",".","c","o","m">>,
  <<"p","o","s","t","e","o",".","d","e">>,
  <<"p","r","o","t","o","n","m","a","i","l",".","c","o","m">>,
  <<"p","m",".","m","e">>,
  <<"m","a","i","l",".","d","e">>,
  <<"m","a","i","l","b","o","x",".","o","r","g">>,
  <<"f","r","e","e","n","e","t",".","d","e">>,
  <<"a","r","c","o","r",".","d","e">>,
  <<"a","o","l",".","c","o","m">>,
  <<"l","i","v","e",".","c","o","m">>
}

ProviderFilters == {"all", "business", "public"}

\* delay of the clear timer, in ms
TimeoutMs == 2000

\* the placeholder shown when no domain is in view (an em dash in the source)
EmDash == <<"EMDASH">>

\* website / source after load: empty or blank becomes null
NormaliseOptional(v) ==
  IF v # Null /\ v # Undefined /\ v # Str0 /\ Len(Trim(v)) > 0 THEN v ELSE Null

cafes ==
  [i \in 1..Len(cafesData) |->
     [name    |-> cafesData[i].name,
      email   |-> cafesData[i].email,
      website |-> NormaliseOptional(cafesData[i].website),
      source  |-> NormaliseOptional(cafesData[i].source)]]

\* variant: the domain is looked up without case folding
isPublicEmail_CaseSensitive(email) ==
  LET domain == Split(email, "@")[2]
  IN domain \in PUBLIC_PROVIDERS

isPublicEmail(email) ==
  LET domain == ToLowerCase(Split(email, "@")[2])
  IN domain \in PUBLIC_PROVIDERS

formatDomain(email) == ToLowerCase(Split(email, "@")[2])

\* variant: replace without the global flag, only the first quote is doubled
ReplaceQuotes_FirstOnly(s) ==
  IF IndexIn(s, "\"") = 0 THEN s
  ELSE LET k == CHOOSE i \in 1..Len(s) :
                  s[i] = "\"" /\ \A j \in 1..(i - 1) : s[j] # "\""
       IN SubSeq(s, 1, k) \o <<"\"">> \o SubSeq(s, k + 1, Len(s))

RECURSIVE ReplaceQuotes(_)
ReplaceQuotes(s) ==
  IF s = <<>> THEN Str0
  ELSE (IF Head(s) = "\"" THEN <<"\"", "\"">> ELSE <<Head(s)>>)
       \o ReplaceQuotes(Tail(s))

sanitiseCsvField(value) ==
  LET safe == ReplaceQuotes(Coalesce(value, Str0))
  IN <<"\"">> \o safe \o <<"\"">>

-----------------------------------------------------------------------------
(* Array helpers *)

\* Array.prototype.filter is SelectSeq.

CompareByName(a, b) == LocaleCompare(a.name, b.name)

\* Array.prototype.sort((a, b) => a.name.localeCompare(b.name)): a stable sort
RECURSIVE InsertSorted(_, _)
InsertSorted(sorted, x) ==
  IF sorted = <<>> THEN <<x>>
  ELSE IF CompareByName(Head(sorted), x) <= 0
       THEN <<Head(sorted)>> \o InsertSorted(Tail(sorted), x)
       ELSE <<x>> \o sorted

RECURSIVE SortFrom(_, _)
SortFrom(seq, acc) ==
  IF seq = <<>> THEN acc
  ELSE SortFrom(Tail(seq), InsertSorted(acc, Head(seq)))

\* variant: the sort is left out
SortByName_Unsorted(seq) == seq

SortByName(seq) == SortFrom(seq, <<>>)

-----------------------------------------------------------------------------
(* Derived view: the two memoized values, functions of the state *)

SearchTarget(cafe) ==
  ToLowerCase(cafe.name \o <<" ">> \o cafe.email \o <<" ">>
              \o Coalesce(cafe.website, Str0) \o <<" ">>
              \o Coalesce(cafe.source, Str0))

MatchesSearch(cafe) ==
  LET term == ToLowerCase(Trim(searchTerm))
  IN IF term = Str0 THEN TRUE ELSE Includes(SearchTarget(cafe), term)

\* variant: the two filter values are swapped
MatchesProvider_Swapped(cafe) ==
  IF providerFilter = "all" THEN TRUE
  ELSE LET publicEmail == isPublicEmail(cafe.email)
       IN IF providerFilter = "public" THEN ~publicEmail ELSE publicEmail

MatchesProvider(cafe) ==
  IF providerFilter = "all" THEN TRUE
  ELSE LET publicEmail == isPublicEmail(cafe.email)
       IN IF providerFilter = "public" THEN publicEmail ELSE ~publicEmail

filteredCafes ==
  SortByName(SelectSeq(SelectSeq(cafes, MatchesSearch), MatchesProvider))

\* domainCount.set(domain, (domainCount.get(domain) ?? 0) + 1) on a Map kept
\* in insertion order
MapIncrement(m, domain) ==
  IF \E i \in 1..Len(m) : m[i].domain = domain
  THEN [i \in 1..Len(m) |->
          IF m[i].domain = domain
          THEN [domain |-> domain, count |-> m[i].count + 1]
          ELSE m[i]]
  ELSE Append(m, [domain |-> domain, count |-> 1])

RECURSIVE CountDomains(_, _)
CountDomains(list, m) ==
  IF list = <<>> THEN m
  ELSE CountDomains(Tail(list), MapIncrement(m, formatDomain(Head(list).email)))

\* variant: an equal count replaces the top as well
RECURSIVE TopOf_LastWins(_, _)
TopOf_LastWins(m, top) ==
  IF m = <<>> THEN top
  ELSE TopOf_LastWins(Tail(m), IF Head(m).count >= top.count THEN Head(m) ELSE top)

\* the forEach over the map: a strictly greater count replaces the top
RECURSIVE TopOf(_, _)
TopOf(m, top) ==
  IF m = <<>> THEN top
  ELSE TopOf(Tail(m), IF Head(m).count > top.count THEN Head(m) ELSE top)

PublicOnly(cafe) == isPublicEmail(cafe.email)

domainStats ==
  LET domainCount == CountDomains(filteredCafes, <<>>)
      top == TopOf(domainCount, [domain |-> Str0, count |-> 0])
      publicCount == Len(SelectSeq(filteredCafes, PublicOnly))
  IN [uniqueDomains |-> Len(domainCount),
      topDomain     |-> IF top.count > 0
                        THEN top.domain \o <<" ", "(">>
                             \o NumberToString(top.count) \o <<")">>
                        ELSE EmDash,
      publicCount   |-> publicCount,
      businessCount |-> Len(filteredCafes) - publicCount]

CsvHeader == << <<"N","a","m","e">>, <<"E","m","a","i","l">>,
                <<"W","e","b","s","i","t","e">>, <<"S","o","u","r","c","e">> >>

CsvRowOf(cafe) ==
  <<cafe.name, cafe.email, Coalesce(cafe.website, Str0), Coalesce(cafe.source, Str0)>>

CsvLine(row) ==
  Join([i \in 1..Len(row) |-> sanitiseCsvField(row[i])], <<",">>)

\* variant: every record is exported, not the records in view
CsvText_AllRows ==
  LET rows == [i \in 1..Len(cafes) |-> CsvRowOf(cafes[i])]
      all  == <<CsvHeader>> \o rows
  IN Join([i \in 1..Len(all) |-> CsvLine(all[i])], <<"\n">>)

CsvText ==
  LET rows == [i \in 1..Len(filteredCafes) |-> CsvRowOf(filteredCafes[i])]
      all  == <<CsvHeader>> \o rows
  IN Join([i \in 1..Len(all) |-> CsvLine(all[i])], <<"\n">>)

-----------------------------------------------------------------------------
(* Inputs: the records the data file may hold, the texts typed in the search *)
(* box, the values handed to sanitiseCsvField                               *)

CafePool == <<
  [name    |-> <<"Z","e","t","a">>,
   email   |-> <<"a","@","g","m","a","i","l",".","c","o","m">>,
   website |-> Undefined,
   source  |-> Str0],
  [name    |-> <<"a","l","\"","a">>,
   email   |-> <<"b","@","f","i","r","m","a",".","d","e">>,
   website |-> <<"f",".","d","e">>,
   source  |-> Null],
  [name    |-> <<"A","l","\"","a">>,
   email   |-> <<"c","@","G","M","A","I","L",".","c","o","m">>,
   website |-> <<" "," ">>,
   source  |-> <<",","\n","x">>] >>

\* the records of S, in the order of the pool
PoolPick(S) ==
  LET InS(i) == i \in S
      idx == SelectSeq([i \in 1..Len(CafePool) |-> i], InS)
  IN [k \in 1..Len(idx) |-> CafePool[idx[k]]]

\* the data file holds any selection of the pool
Datasets == {PoolPick(S) : S \in SUBSET (1..Len(CafePool))}

SearchInputs == {Str0, <<" ">>, <<" ","F","I","R","M","A">>}

CsvAlphabet == {"a", "\"", ",", "\n"}

RECURSIVE StringsUpTo(_)
StringsUpTo(n) ==
  IF n = 0 THEN {Str0}
  ELSE LET shorter == StringsUpTo(n - 1)
       IN shorter \cup {Append(t, c) : t \in shorter, c \in CsvAlphabet}

CsvValues == StringsUpTo(MaxFieldLen) \cup {Null, Undefined}

-----------------------------------------------------------------------------
(* The view: initial state and event handlers *)

Init ==
  /\ cafesData \in Datasets
  /\ searchTerm = Str0
  /\ providerFilter = "all"
  /\ copiedEmail = Null
  /\ pendingWrites = EmptyBag
  /\ timers = <<>>
  /\ consoleErrors = 0
  /\ downloaded = Null
  /\ csvValue = Undefined
  /\ csvQuoted = Null

\* onChange of the search input
SetSearchTerm(value) ==
  /\ searchTerm' = value
  /\ UNCHANGED <<cafesData, providerFilter, copiedEmail, pendingWrites, timers,
                 consoleErrors, downloaded, csvValue, csvQuoted>>

\* onChange of the provider select
SetProviderFilter(value) ==
  /\ providerFilter' = value
  /\ UNCHANGED <<cafesData, searchTerm, copiedEmail, pendingWrites, timers,
                 consoleErrors, downloaded, csvValue, csvQuoted>>

\* variant: the reset forgets the provider filter
ResetClick_KeepsProvider ==
  /\ searchTerm' = Str0
  /\ UNCHANGED <<cafesData, providerFilter, copiedEmail, pendingWrites, timers,
                 consoleErrors, downloaded, csvValue, csvQuoted>>

\* onClick of the Reset button
ResetClick ==
  /\ searchTerm' = Str0
  /\ providerFilter' = "all"
  /\ UNCHANGED <<cafesData, copiedEmail, pendingWrites, timers,
                 consoleErrors, downloaded, csvValue, csvQuoted>>

\* variant: the marker is set before the write is awaited
HandleCopy_Eager(email) ==
  /\ BagCardinality(pendingWrites) + Len(timers) < MaxInFlight
  /\ LET shown == filteredCafes
     IN \E i \in 1..Len(shown) : shown[i].email = email
  /\ pendingWrites' = pendingWrites (+) SetToBag({email})
  /\ copiedEmail' = email
  /\ UNCHANGED <<cafesData, searchTerm, providerFilter, timers,
                 consoleErrors, downloaded, csvValue, csvQuoted>>

\* handleCopy up to its await: the clipboard write is started
HandleCopy(email) ==
  /\ BagCardinality(pendingWrites) + Len(timers) < MaxInFlight
  /\ LET shown == filteredCafes
     IN \E i \in 1..Len(shown) : shown[i].email = email
  /\ pendingWrites' = pendingWrites (+) SetToBag({email})
  /\ UNCHANGED <<cafesData, searchTerm, providerFilter, copiedEmail, timers,
                 consoleErrors, downloaded, csvValue, csvQuoted>>

\* variant: the marker and the timer are set outside the try block
ClipboardSettle_MarksAnyway(email, ok) ==
  /\ BagIn(email, pendingWrites)
  /\ pendingWrites' = pendingWrites (-) SetToBag({email})
  /\ copiedEmail' = email
  /\ timers' = Append(timers, TimeoutMs)
  /\ IF ok
     THEN UNCHANGED consoleErrors
     ELSE /\ consoleErrors < MaxErrors
          /\ consoleErrors' = consoleErrors + 1
  /\ UNCHANGED <<cafesData, searchTerm, providerFilter, downloaded,
                 csvValue, csvQuoted>>

\* handleCopy after its await: the write resolved (ok) or rejected
ClipboardSettle(email, ok) ==
  /\ BagIn(email, pendingWrites)
  /\ pendingWrites' = pendingWrites (-) SetToBag({email})
  /\ IF ok
     THEN /\ copiedEmail' = email
          /\ timers' = Append(timers, TimeoutMs)
          /\ UNCHANGED consoleErrors
     ELSE /\ consoleErrors < MaxErrors
          /\ consoleErrors' = consoleErrors + 1
          /\ UNCHANGED <<copiedEmail, timers>>
  /\ UNCHANGED <<cafesData, searchTerm, providerFilter, downloaded,
                 csvValue, csvQuoted>>

\* the setTimeout callback: the oldest timer is due
TimerFire ==
  /\ timers # <<>>
  /\ Head(timers) = 0
  /\ copiedEmail' = Null
  /\ timers' = Tail(timers)
  /\ UNCHANGED <<cafesData, searchTerm, providerFilter, pendingWrites,
                 consoleErrors, downloaded, csvValue, csvQuoted>>

\* time passes, at most up to the next due timer
TickMs == TimeoutMs \div 2

Tick ==
  /\ timers # <<>>
  /\ Head(timers) > 0
  /\ LET d == IF Head(timers) < TickMs THEN Head(timers) ELSE TickMs
     IN timers' = [i \in 1..Len(timers) |-> timers[i] - d]
  /\ UNCHANGED <<cafesData, searchTerm, providerFilter, copiedEmail, pendingWrites,
                 consoleErrors, downloaded, csvValue, csvQuoted>>

\* onClick of the Download CSV button
HandleDownloadCsv ==
  /\ downloaded' = CsvText
  /\ UNCHANGED <<cafesData, searchTerm, providerFilter, copiedEmail, pendingWrites,
                 timers, consoleErrors, csvValue, csvQuoted>>

Next ==
  \/ \E value \in SearchInputs : SetSearchTerm(value)
  \/ \E value \in ProviderFilters : SetProviderFilter(value)
  \/ ResetClick
  \/ \E i \in 1..Len(cafes) : HandleCopy(cafes[i].email)
  \/ \E i \in 1..Len(cafes), ok \in BOOLEAN : ClipboardSettle(cafes[i].email, ok)
  \/ TimerFire
  \/ Tick
  \/ HandleDownloadCsv

Spec == Init /\ [][Next]_vars

\* the event loop runs due timers and time does not stop
LiveSpec == Spec /\ WF_vars(TimerFire) /\ WF_vars(Tick)

-----------------------------------------------------------------------------
(* sanitiseCsvField on its own, over every value up to MaxFieldLen *)

InitCsv ==
  /\ cafesData = <<>>
  /\ searchTerm = Str0
  /\ providerFilter = "all"
  /\ copiedEmail = Null
  /\ pendingWrites = EmptyBag
  /\ timers = <<>>
  /\ consoleErrors = 0
  /\ downloaded = Null
  /\ csvValue \in CsvValues
  /\ csvQuoted = Null

SanitiseCall ==
  /\ csvQuoted = Null
  /\ csvQuoted' = sanitiseCsvField(csvValue)
  /\ UNCHANGED <<cafesData, searchTerm, providerFilter, copiedEmail, pendingWrites,
                 timers, consoleErrors, downloaded, csvValue>>

NextCsv == SanitiseCall

CsvSpec == InitCsv /\ [][NextCsv]_vars

-----------------------------------------------------------------------------
(* Reference notions the properties are stated with *)

\* the domain of a record: what follows the "@", lower-cased
DomainAfterAt(email) ==
  ToLowerCase(SubSeq(email, IndexIn(email, "@") + 1, Len(email)))

HasPublicDomain(cafe) == DomainAfterAt(cafe.email) \in PUBLIC_PROVIDERS

\* time left of the display window opened by the latest successful copy
MarkerRemaining == IF timers = <<>> THEN 0 ELSE timers[Len(timers)]

Occurrences(seq, x) == Cardinality({i \in 1..Len(seq) : seq[i] = x})

\* A reader of CSV text with the standard quoting rules: a field is bare or
\* wrapped in double quotes, a quoted field may hold commas, line breaks and
\* doubled quotes, a comma ends a field and a line break ends a row.  The
\* result is the rows of fields, or Malformed.  The text is read in halves,
\* each half from the mode the half before it ends in, and the halves' rows
\* are glued at the seam.
Malformed == <<"MALFORMED">>

NoText == << <<Str0>> >>          \* one row holding one empty field
FieldBreak == << <<Str0, Str0>> >>
RowBreak == << <<Str0>>, <<Str0>> >>

CsvStep(mode, c) ==
  CASE mode = "start" ->
         IF c = "\"" THEN [mode |-> "quoted", rows |-> NoText]
         ELSE IF c = "," THEN [mode |-> "start", rows |-> FieldBreak]
         ELSE IF c = "\n" THEN [mode |-> "start", rows |-> RowBreak]
         ELSE [mode |-> "bare", rows |-> << << <<c>> >> >>]
    [] mode = "bare" ->
         IF c = "\"" THEN [mode |-> "error", rows |-> NoText]
         ELSE IF c = "," THEN [mode |-> "start", rows |-> FieldBreak]
         ELSE IF c = "\n" THEN [mode |-> "start", rows |-> RowBreak]
         ELSE [mode |-> "bare", rows |-> << << <<c>> >> >>]
    [] mode = "quoted" ->
         IF c = "\"" THEN [mode |-> "closing", rows |-> NoText]
         ELSE [mode |-> "quoted", rows |-> << << <<c>> >> >>]
    [] mode = "closing" ->
         IF c = "\"" THEN [mode |-> "quoted", rows |-> << << <<c>> >> >>]
         ELSE IF c = "," THEN [mode |-> "start", rows |-> FieldBreak]
         ELSE IF c = "\n" THEN [mode |-> "start", rows |-> RowBreak]
         ELSE [mode |-> "error", rows |-> NoText]
    [] OTHER -> [mode |-> "error", rows |-> NoText]

\* the last field of row r continues in the first field of row q
GlueRow(r, q) ==
  SubSeq(r, 1, Len(r) - 1) \o <<r[Len(r)] \o q[1]>> \o Tail(q)

\* the last row of a continues in the first row of b
GlueRows(a, b) ==
  SubSeq(a, 1, Len(a) - 1) \o <<GlueRow(a[Len(a)], b[1])>> \o Tail(b)

RECURSIVE CsvScan(_, _, _, _)
CsvScan(text, lo, hi, mode) ==
  IF mode = "error" \/ lo > hi THEN [mode |-> mode, rows |-> NoText]
  ELSE IF lo = hi THEN CsvStep(mode, text[lo])
  ELSE LET mid == (lo + hi) \div 2
           left == CsvScan(text, lo, mid, mode)
           right == CsvScan(text, mid + 1, hi, left.mode)
       IN [mode |-> right.mode, rows |-> GlueRows(left.rows, right.rows)]

ParseCsv(text) ==
  LET scan == CsvScan(text, 1, Len(text), "start")
  IN IF scan.mode \in {"error", "quoted"} THEN Malformed ELSE scan.rows

\* the rows on display, as the four columns of the export
VisibleRows ==
  [i \in 1..Len(filteredCafes) |->
     <<filteredCafes[i].name,
       filteredCafes[i].email,
       IF filteredCafes[i].website = Null THEN Str0 ELSE filteredCafes[i].website,
       IF filteredCafes[i].source = Null THEN Str0 ELSE filteredCafes[i].source>>]

AscendingByName(list) ==
  \A i \in 1..Len(list), j \in 1..Len(list) :
     i < j => LocaleCompare(list[i].name, list[j].name) <= 0

\* the domains in view, in display order
DomainsInView == [i \in 1..Len(filteredCafes) |-> DomainAfterAt(filteredCafes[i].email)]

FirstSeen(doms, d) ==
  CHOOSE i \in 1..Len(doms) : doms[i] = d /\ \A j \in 1..(i - 1) : doms[j] # d

\* d has the maximum count in doms, and among the domains with that count is
\* seen first
IsTopDomain(doms, d) ==
  LET n == Occurrences(doms, d)
      first == FirstSeen(doms, d)
  IN /\ n > 0
     /\ \A i \in 1..Len(doms) :
          LET m == Occurrences(doms, doms[i])
          IN m < n \/ (m = n /\ first <= FirstSeen(doms, doms[i]))

-----------------------------------------------------------------------------
(* Properties *)

Emails == {cafes[i].email : i \in 1..Len(cafes)}

\* C1: after two successful copies less than 2 seconds apart the marker stays
\* set until 2 seconds after the last copy: whenever the marker is cleared,
\* the window of the latest copy has run out.
C1_ClearedOnlyAfterLatestWindow ==
  [][(copiedEmail # Null /\ copiedEmail' = Null) => MarkerRemaining = 0]_vars

\* C2: the marker is set to an email only in the step in which a pending
\* write of that email resolves (starting the write leaves it alone), that
\* step schedules a timer, and a set marker is eventually cleared.
C2_MarkedAfterResolveThenCleared ==
  /\ [][/\ \A e \in Emails : HandleCopy(e) => copiedEmail' = copiedEmail
        /\ (copiedEmail' # copiedEmail /\ copiedEmail' # Null) =>
              /\ BagIn(copiedEmail', pendingWrites)
              /\ pendingWrites' = pendingWrites (-) SetToBag({copiedEmail'})
              /\ timers' = Append(timers, TimeoutMs)]_vars
  /\ (copiedEmail # Null) ~> (copiedEmail = Null)

C2_Witness == copiedEmail # Null /\ timers # <<>> /\ Head(timers) = 0

\* C3: a rejected clipboard write is logged once and changes neither the
\* marker, the search term, the provider filter nor the timers; nothing else
\* logs.
C3_FailedCopyOnlyLogs ==
  [][/\ \A e \in Emails : ClipboardSettle(e, FALSE) =>
           /\ consoleErrors' = consoleErrors + 1
           /\ UNCHANGED <<copiedEmail, searchTerm, providerFilter, timers>>
     /\ consoleErrors' # consoleErrors =>
           /\ consoleErrors' = consoleErrors + 1
           /\ BagCardinality(pendingWrites') = BagCardinality(pendingWrites) - 1
           /\ UNCHANGED <<copiedEmail, searchTerm, providerFilter, timers, downloaded>>]_vars

C3_Witness == consoleErrors > 0 /\ copiedEmail # Null /\ timers # <<>>

\* C4: publicCount + businessCount is the number of records in view, and
\* publicCount is the number of records in view with a public-provider domain.
C4_CountsPartitionView ==
  LET stats == domainStats
      view == filteredCafes
  IN /\ stats.publicCount + stats.businessCount = Len(view)
     /\ stats.publicCount = Cardinality({i \in 1..Len(view) : HasPublicDomain(view[i])})

C4_Witness ==
  /\ domainStats.publicCount = 2
  /\ domainStats.businessCount = 1
  /\ copiedEmail # Null

\* C5: under "public" every record in view has a public-provider domain, under
\* "business" none has, and a record that passes the search is in view exactly
\* when it passes the provider test (always, under "all").
C5_ProviderFilterSelects ==
  LET InView(cafe) == \E i \in 1..Len(filteredCafes) : filteredCafes[i] = cafe
      Passes(cafe) == CASE providerFilter = "all" -> TRUE
                        [] providerFilter = "public" -> HasPublicDomain(cafe)
                        [] providerFilter = "business" -> ~HasPublicDomain(cafe)
  IN /\ providerFilter = "public" =>
          \A i \in 1..Len(filteredCafes) : HasPublicDomain(filteredCafes[i])
     /\ providerFilter = "business" =>
          \A i \in 1..Len(filteredCafes) : ~HasPublicDomain(filteredCafes[i])
     /\ \A i \in 1..Len(cafes) :
          MatchesSearch(cafes[i]) => (InView(cafes[i]) <=> Passes(cafes[i]))

C5_Witness ==
  /\ providerFilter = "public"
  /\ Len(cafes) = 3
  /\ Len(filteredCafes) = 2
  /\ \E i \in 1..Len(filteredCafes) : Split(filteredCafes[i].email, "@")[2] \notin PUBLIC_PROVIDERS

\* C6: with a blank search term and the filter "all", every record is in view
\* exactly once, in ascending order of name.
C6_BlankSearchShowsAllSorted ==
  (Trim(searchTerm) = Str0 /\ providerFilter = "all") =>
     /\ Len(filteredCafes) = Len(cafes)
     /\ \A i \in 1..Len(cafes) : Occurrences(filteredCafes, cafes[i]) = 1
     /\ AscendingByName(filteredCafes)

C6_Witness ==
  /\ searchTerm = <<" ">>
  /\ providerFilter = "all"
  /\ Len(cafes) = 3
  /\ filteredCafes # cafes

\* C7: the top domain is the domain with the maximum count in view, the first
\* seen in display order among equals, shown with its count; with nothing in
\* view the label is the placeholder and uniqueDomains is 0.
C7_TopDomainIsFirstMaximum ==
  LET doms == DomainsInView
      stats == domainStats
  IN IF doms = <<>>
     THEN stats.topDomain = EmDash /\ stats.uniqueDomains = 0
     ELSE \E i \in 1..Len(doms) :
             /\ IsTopDomain(doms, doms[i])
             /\ stats.topDomain =
                  doms[i] \o <<" ", "(">>
                  \o NumberToString(Occurrences(doms, doms[i])) \o <<")">>

\* two domains in view share the maximum count
C7_Witness ==
  LET doms == DomainsInView
  IN \E i, j \in 1..Len(doms) :
        /\ doms[i] # doms[j]
        /\ Occurrences(doms, doms[i]) = Occurrences(doms, doms[j])
        /\ IsTopDomain(doms, doms[i])

\* C8: sanitiseCsvField wraps the value (null and undefined as the empty
\* string) in double quotes with every embedded quote doubled, and reading the
\* result back as CSV gives one row of one field, the original string.
C8_QuotedFieldRoundTrips ==
  csvQuoted # Null =>
     LET original == IF csvValue = Null \/ csvValue = Undefined THEN Str0 ELSE csvValue
     IN /\ Len(csvQuoted) = Len(original) + Occurrences(original, "\"") + 2
        /\ csvQuoted[1] = "\"" /\ csvQuoted[Len(csvQuoted)] = "\""
        /\ ParseCsv(csvQuoted) = << <<original>> >>

C8_Witness ==
  /\ csvQuoted # Null
  /\ Occurrences(csvValue, "\"") = 2
  /\ Occurrences(csvValue, ",") + Occurrences(csvValue, "\n") = 1

\* C9: a download hands over CSV text that reads back as the header row
\* followed by one row per record in view, in display order, and changes
\* neither the search term, the provider filter nor the marker.
C9_DownloadExportsView ==
  [][(HandleDownloadCsv \/ downloaded' # downloaded) =>
        /\ ParseCsv(downloaded') = <<CsvHeader>> \o VisibleRows
        /\ UNCHANGED <<searchTerm, providerFilter, copiedEmail, timers>>]_vars

C9_Witness ==
  /\ downloaded # Null
  /\ downloaded = CsvText
  /\ Len(cafes) = 3
  /\ Len(filteredCafes) = 2
  /\ \E i \in 1..Len(filteredCafes) : Occurrences(filteredCafes[i].name, "\"") > 0

\* C10: a reset empties the search term and sets the filter to "all" and
\* leaves the marker, the timers and the writes in flight alone; with these
\* defaults every record is in view.
C10_ResetRestoresDefaults ==
  /\ [][ResetClick =>
          /\ searchTerm' = Str0
          /\ providerFilter' = "all"
          /\ copiedEmail' = copiedEmail
          /\ timers' = timers
          /\ pendingWrites' = pendingWrites]_vars
  /\ []((searchTerm = Str0 /\ providerFilter = "all") =>
          /\ Len(filteredCafes) = Len(cafes)
          /\ \A i \in 1..Len(cafes) : Occurrences(filteredCafes, cafes[i]) = 1)

\* defaults in force although an earlier download was filtered, with a marker
\* and a timer pending
C10_Witness ==
  /\ searchTerm = Str0
  /\ providerFilter = "all"
  /\ copiedEmail # Null
  /\ timers # <<>>
  /\ downloaded # Null
  /\ downloaded # CsvText

====
